---- MODULE Spec2Model ----
(***************************************************************************)
(* A model of cl/search/management/commands/cl_update_index.py: the        *)
(* management command that keeps a Solr index in step with the database.   *)
(* Two entry points are modelled: Command.handle (specification Spec) and  *)
(* a direct call of Command._chunk_queryset_into_tasks with arbitrary      *)
(* arguments (specification SpecEngine).                                   *)
(*                                                                         *)
(* The record store, the index and the Celery workers are external: what   *)
(* they return is drawn nondeterministically where the command reads it.   *)
(* join() is called with Celery's defaults and Celery is not part of the   *)
(* repository, so both of its outcomes on a failed task are kept: it       *)
(* returns once every task of the set has finished, or it re-raises the    *)
(* exception of the first failed task it collects (propagate).             *)
(* Of what the command prints only the progress lines and stderr are kept; *)
(* verbosity and print_timing change nothing else and are left out.        *)
(***************************************************************************)
EXTENDS Integers, Sequences, FiniteSets, TLC

\* ---------------------------------------------------------------- bounds
\* Largest primary key in the store (so at most MaxPk records).
MaxPk == 3
\* bundle_size ranges over 1..MaxBundle in a direct call of the engine.
MaxBundle == 3
\* chunksize ranges over 1..MaxChunk in a direct call of the engine.
MaxChunk == 2
\* Longest id list given with --items.
MaxIds == 2

\* ------------------------------------------------------ program constants
\* proceed_with_deletion: "if count > 10000 and proceed is True"
DoubleCheck == 10000
\* _chunk_queryset_into_tasks(self, items, count, chunksize=50, ...)
DefaultChunkSize == 50
\* _chunk_queryset_into_tasks(..., bundle_size=250)
DefaultBundleSize == 250

\* ---------------------------------------------------------------- values
None == "None"
URLs == {"http://solr/swap_core"}
SolrUrlValues == {None} \cup URLs
\* valid_obj_type: the models --type can name; None when --type is absent.
Types == {"Opinion", "Audio", "Person", "RECAPDocument"}
TypeValues == {None} \cup Types
\* Creation times of records, and the values --datetime can take.
Times == {1, 2}
\* settings.SOLR_URLS.values()
SOLR_URLS == <<"http://solr/opinion", "http://solr/audio", "http://solr/person">>

\* ------------------------------------------------------- sequence helpers
RECURSIVE SortedSeq(_)
\* The elements of a finite set of integers in ascending order
\* (queryset_generator orders by primary key).
SortedSeq(S) ==
    IF S = {} THEN <<>>
    ELSE LET m == CHOOSE x \in S : \A y \in S : x <= y
         IN  <<m>> \o SortedSeq(S \ {m})

RECURSIVE Flatten(_)
\* The concatenation of a sequence of sequences.
Flatten(ss) ==
    IF ss = <<>> THEN <<>> ELSE Head(ss) \o Flatten(Tail(ss))

\* ceil(a / b) for a >= 0, b >= 1.
CeilDiv(a, b) == (a + b - 1) \div b

VARIABLES
    \* --- Command.handle and the operations it calls
    options,        \* the parsed command line
    hpc,            \* where handle is
    solr_url,       \* self.solr_url
    si,             \* self.si: None, or the URL the interface was opened on
    type,           \* self.type
    store,          \* the record store as the command last read it: a function
                    \* from the primary keys present to date_created
    del_count,      \* the count a bulk deletion obtained
    proceed,        \* proceed_with_deletion's local "proceed"
    prompts,        \* the answers raw_input returned, in order
    calls,          \* the operations whose bodies were entered, in order
    index_ops,      \* the operations issued against the index, in order
    queue,          \* the tasks submitted with .delay(), in order
    opt_urls,       \* optimize_everything: the URLs still to visit
    skipped,        \* history: the URLs whose schema did not load, in order
    stderr,         \* what was written to self.stderr
    exit_code,      \* <<>> while running, then <<the process's exit code>>
    \* --- Command._chunk_queryset_into_tasks
    items,          \* the records the iterable yields (by primary key)
    rest,           \* what the iterator has not yielded yet
    count,          \* the count argument
    chunksize,
    bundle_size,
    processed_count,
    subtasks,
    item_bundle,
    last_item,
    epc,            \* where the engine is
    bundles,        \* history: the bundles handed to subtask(), in order
    waves,          \* history: the TaskSets built, in order, with each task's state
    joins,          \* history: number of join() calls issued
    out             \* history: the progress lines written, <<processed, count, percent>>

hvars == <<options, hpc, solr_url, si, type, store, del_count, proceed, prompts,
           calls, index_ops, queue, opt_urls, skipped, stderr, exit_code>>
evars == <<items, rest, count, chunksize, bundle_size, processed_count, subtasks,
           item_bundle, last_item, epc, bundles, waves, joins, out>>
vars == <<hvars, evars>>
\* ------------------------------------------------------------------------
\* Command._chunk_queryset_into_tasks
\* ------------------------------------------------------------------------
TaskDone == {"SUCCESS", "FAILURE"}

\* add_or_update_items.subtask((item_bundle, self.solr_url))
Subtask(bundle, url) ==
    [task |-> "add_or_update_items", bundle |-> bundle, url |-> url]

\* TaskSet(tasks=subtasks): one handle per subtask, not yet published.
TaskSet(subs) ==
    [i \in 1..Len(subs) |-> [task |-> subs[i].task, bundle |-> subs[i].bundle,
                             url |-> subs[i].url, state |-> "NEW"]]

\* last_item = (count == processed_count + 1)
LastItem(cnt, processed) == cnt = processed + 1

\* A bundle sealed one record late: ">" for ">=".
SealBundleLate(bundle, size, last) == Len(bundle) > size \/ last

\* if (len(item_bundle) >= bundle_size) or last_item
SealBundle(bundle, size, last) == Len(bundle) >= size \/ last

\* A wave dispatched one task late: ">" for ">=".
DispatchWaveLate(subs, size, last) == Len(subs) > size \/ last

\* if (len(subtasks) >= chunksize) or last_item
DispatchWave(subs, size, last) == Len(subs) >= size \/ last

\* A join that does not wait (apply_async() without the join).
WaveCompleteNoWait(w) == TRUE

\* join(): returns when every task of the set has finished.
WaveComplete(w) == \A i \in 1..Len(w) : w[i].state \in TaskDone

\* The wave the engine built last.
CurrentWave == waves[Len(waves)]

\* The percentage cut to a whole number instead of rounded.
PercentTruncated(k, n) == (100 * k) \div n

\* "{:.0%}".format(k * 1.0 / n): a hundred times the quotient with no decimals,
\* rounded to the nearest whole number, a tie to the even one.
Percent(k, n) ==
    LET q == (100 * k) \div n
        r == (100 * k) % n
    IN  IF 2 * r < n THEN q
        ELSE IF 2 * r > n THEN q + 1
        ELSE IF q % 2 = 0 THEN q ELSE q + 1

\* sys.stdout.write("\rProcessed {}/{} ({:.0%})".format(processed_count, count,
\* processed_count * 1.0 / count)): a float division, ZeroDivisionError when
\* count is 0.
WriteProgress(processed) ==
    IF count = 0
    THEN /\ epc' = "crashed"
         /\ out' = out
    ELSE /\ epc' = "loop"
         /\ out' = Append(out, <<processed, count, Percent(processed, count)>>)

\* One pass of "for item in items" up to the wave's dispatch (or, when no wave
\* is due, to the end of the loop body).
Iterate ==
    /\ epc = "loop"
    /\ rest # <<>>
    /\ LET item == Head(rest)
           last == LastItem(count, processed_count)
           bundle1 == Append(item_bundle, item)
           seal == SealBundle(bundle1, bundle_size, last)
           subtasks1 == IF seal THEN Append(subtasks, Subtask(bundle1, solr_url))
                        ELSE subtasks
       IN  /\ rest' = Tail(rest)
           /\ last_item' = last
           /\ item_bundle' = IF seal THEN <<>> ELSE bundle1
           /\ bundles' = IF seal THEN Append(bundles, bundle1) ELSE bundles
           /\ subtasks' = subtasks1
           /\ processed_count' = processed_count + 1
           /\ IF DispatchWave(subtasks1, chunksize, last)
              THEN /\ waves' = Append(waves, TaskSet(subtasks1))
                   /\ epc' = "apply_async"
                   /\ out' = out
              ELSE /\ waves' = waves
                   /\ WriteProgress(processed_count + 1)
    /\ UNCHANGED <<items, count, chunksize, bundle_size, joins>>
    /\ UNCHANGED hvars

\* job.apply_async(): the set's tasks are published one after the other.
Publish ==
    /\ epc = "apply_async"
    /\ \E i \in 1..Len(CurrentWave) :
          /\ CurrentWave[i].state = "NEW"
          /\ \A j \in 1..(i - 1) : CurrentWave[j].state # "NEW"
          /\ waves' = [waves EXCEPT ![Len(waves)][i].state = "PENDING"]
    /\ UNCHANGED <<items, rest, count, chunksize, bundle_size, processed_count,
                   subtasks, item_bundle, last_item, epc, bundles, joins, out>>
    /\ UNCHANGED hvars

\* .join() is called on what apply_async() returned.
JoinCall ==
    /\ epc = "apply_async"
    /\ \A i \in 1..Len(CurrentWave) : CurrentWave[i].state # "NEW"
    /\ epc' = "join"
    /\ joins' = joins + 1
    /\ UNCHANGED <<items, rest, count, chunksize, bundle_size, processed_count,
                   subtasks, item_bundle, last_item, bundles, waves, out>>
    /\ UNCHANGED hvars

\* A Celery worker finishes a published task, with either outcome.
TaskRun ==
    /\ \E w \in 1..Len(waves) : \E i \in 1..Len(waves[w]) : \E outcome \in TaskDone :
          /\ waves[w][i].state = "PENDING"
          /\ waves' = [waves EXCEPT ![w][i].state = outcome]
    /\ UNCHANGED <<items, rest, count, chunksize, bundle_size, processed_count,
                   subtasks, item_bundle, last_item, epc, bundles, joins, out>>
    /\ UNCHANGED hvars

\* join() returns; "subtasks = []" and the progress line end the loop body.
JoinReturn ==
    /\ epc = "join"
    /\ WaveComplete(CurrentWave)
    /\ subtasks' = <<>>
    /\ WriteProgress(processed_count)
    /\ UNCHANGED <<items, rest, count, chunksize, bundle_size, processed_count,
                   item_bundle, last_item, bundles, waves, joins>>
    /\ UNCHANGED hvars

\* join() collects the results in order and re-raises the exception of a
\* failed task; nothing in the engine catches it.
JoinRaise ==
    /\ epc = "join"
    /\ \E i \in 1..Len(CurrentWave) :
          /\ CurrentWave[i].state = "FAILURE"
          /\ \A j \in 1..(i - 1) : CurrentWave[j].state = "SUCCESS"
    /\ epc' = "raised"
    /\ UNCHANGED <<items, rest, count, chunksize, bundle_size, processed_count,
                   subtasks, item_bundle, last_item, bundles, waves, joins, out>>
    /\ UNCHANGED hvars

\* The iterable is exhausted: self.stdout.write('\n') and return.
EngineReturn ==
    /\ epc = "loop"
    /\ rest = <<>>
    /\ epc' = "done"
    /\ UNCHANGED <<items, rest, count, chunksize, bundle_size, processed_count,
                   subtasks, item_bundle, last_item, bundles, waves, joins, out>>
    /\ UNCHANGED hvars

\* The engine's locals at entry (lines 206-208), for the given arguments.
EngineEntry(its, cnt, chunk, bundle) ==
    /\ items' = its
    /\ rest' = its
    /\ count' = cnt
    /\ chunksize' = chunk
    /\ bundle_size' = bundle
    /\ processed_count' = 0
    /\ subtasks' = <<>>
    /\ item_bundle' = <<>>
    /\ last_item' = FALSE
    /\ epc' = "loop"
    /\ bundles' = <<>>
    /\ waves' = <<>>
    /\ joins' = 0
    /\ out' = <<>>

\* The engine's variables while it is not running.
EngineIdle ==
    /\ items = <<>>
    /\ rest = <<>>
    /\ count = 0
    /\ chunksize = DefaultChunkSize
    /\ bundle_size = DefaultBundleSize
    /\ processed_count = 0
    /\ subtasks = <<>>
    /\ item_bundle = <<>>
    /\ last_item = FALSE
    /\ epc = "idle"
    /\ bundles = <<>>
    /\ waves = <<>>
    /\ joins = 0
    /\ out = <<>>

\* The sequences of records an iterable can yield: primary keys, ascending.
ItemSeqs == {SortedSeq(S) : S \in SUBSET (1..MaxPk)}

\* The command line of a process that is not running handle.
NoOptions ==
    [update |-> FALSE, delete |-> FALSE, scope |-> "none", dt |-> 0,
     query |-> None, ids |-> <<>>, do_commit |-> FALSE, optimize |-> FALSE,
     optimize_everything |-> FALSE, noinput |-> FALSE, solr_url |-> None,
     type |-> None]

\* A direct call of _chunk_queryset_into_tasks(items, count, chunksize,
\* bundle_size) on a Command whose solr_url is set.
InitEngine ==
    /\ options = NoOptions
    /\ hpc = "direct"
    /\ solr_url \in SolrUrlValues
    /\ si = None
    /\ type = None
    /\ store = <<>>
    /\ del_count = 0
    /\ proceed = TRUE
    /\ prompts = <<>>
    /\ calls = <<"_chunk_queryset_into_tasks">>
    /\ index_ops = <<>>
    /\ queue = <<>>
    /\ opt_urls = <<>>
    /\ skipped = <<>>
    /\ stderr = <<>>
    /\ exit_code = <<>>
    /\ items \in ItemSeqs
    /\ rest = items
    /\ count \in 0..(MaxPk + 1)
    /\ chunksize \in 1..MaxChunk
    /\ bundle_size \in 1..MaxBundle
    /\ processed_count = 0
    /\ subtasks = <<>>
    /\ item_bundle = <<>>
    /\ last_item = FALSE
    /\ epc = "loop"
    /\ bundles = <<>>
    /\ waves = <<>>
    /\ joins = 0
    /\ out = <<>>

NextEngine ==
    \/ Iterate
    \/ Publish
    \/ JoinCall
    \/ TaskRun
    \/ JoinReturn
    \/ JoinRaise
    \/ EngineReturn

SpecEngine == InitEngine /\ [][NextEngine]_vars

\* The engine with a scheduler that lets the loop run and workers that finish
\* every task published, so that a join that can return does return.
SpecEngineFair ==
    /\ InitEngine
    /\ [][NextEngine]_vars
    /\ WF_vars(Iterate)
    /\ WF_vars(Publish)
    /\ WF_vars(JoinCall)
    /\ WF_vars(TaskRun)
    /\ WF_vars(JoinReturn)
    /\ WF_vars(EngineReturn)


\* ------------------------------------------------------------------------
\* proceed_with_deletion
\* ------------------------------------------------------------------------
\* What an operator can type at a prompt, as sequences of characters.
Answers == {<<"y">>, <<"Y", "e", "s">>, <<"n">>, <<>>}

\* str.lower(), on the characters the answers use.
Lower(c) == CASE c = "Y" -> "y" [] c = "N" -> "n" [] OTHER -> c

\* yes_or_no.lower().startswith('y')
Affirmative(ans) == Len(ans) > 0 /\ Lower(Head(ans)) = "y"

\* The double check asked from 10,000 items on: ">=" for ">".
NeedsDoubleCheckFrom(cnt, ok) == cnt >= DoubleCheck /\ ok

\* count > 10000 and proceed is True
NeedsDoubleCheck(cnt, ok) == cnt > DoubleCheck /\ ok

\* The counts an index query can return.
Counts == {0, 1, DoubleCheck, DoubleCheck + 1}

\* ------------------------------------------------------------------------
\* The record store
\* ------------------------------------------------------------------------
\* The states of the store: the primary keys present, each with date_created.
Stores == UNION {[S -> Times] : S \in SUBSET (1..MaxPk)}

\* filter(date_created__gt=dt).values_list('pk', flat=True)
CreatedAfter(st, dt) == {pk \in DOMAIN st : st[pk] > dt}

\* filter(date_created__gte=dt)
CreatedSince(st, dt) == {pk \in DOMAIN st : st[pk] >= dt}

\* One insert or one delete by another writer.
OneWrite(st) ==
    {st2 \in Stores :
        \/ \E pk \in DOMAIN st : st2 = [x \in (DOMAIN st) \ {pk} |-> st[x]]
        \/ \E pk \in DOMAIN st2 :
              /\ pk \notin DOMAIN st
              /\ st = [x \in (DOMAIN st2) \ {pk} |-> st2[x]]}

\* ------------------------------------------------------------------------
\* Command.handle
\* ------------------------------------------------------------------------
\* The ids --items can carry: nargs='*' allows none at all.
IdLists == {[i \in 1..n |-> i] : n \in 0..MaxIds}

\* The predicate expressions --query can carry: Python dict literals, as the
\* option's help asks.
Queries == {"{'court_id': 'haw'}"}

\* The command lines argparse accepts: --update and --delete exclude each
\* other, and so do --everything, --query, --items and --datetime.
Scopes ==
    {[scope |-> "none", dt |-> 0, query |-> None, ids |-> <<>>],
     [scope |-> "everything", dt |-> 0, query |-> None, ids |-> <<>>]}
    \cup {[scope |-> "datetime", dt |-> t, query |-> None, ids |-> <<>>] : t \in Times}
    \cup {[scope |-> "query", dt |-> 0, query |-> q, ids |-> <<>>] : q \in Queries}
    \cup {[scope |-> "items", dt |-> 0, query |-> None, ids |-> l] : l \in IdLists}

OptionSets ==
    {[update |-> m[1], delete |-> m[2], scope |-> sc.scope, dt |-> sc.dt,
      query |-> sc.query, ids |-> sc.ids, do_commit |-> c, optimize |-> o,
      optimize_everything |-> oe, noinput |-> ni, solr_url |-> u, type |-> t] :
        m \in {<<FALSE, FALSE>>, <<TRUE, FALSE>>, <<FALSE, TRUE>>},
        sc \in Scopes, c \in BOOLEAN, o \in BOOLEAN, oe \in BOOLEAN,
        ni \in BOOLEAN, u \in SolrUrlValues, t \in TypeValues}

\* options.get('everything') and the like, as Python's "if" reads them: None,
\* an empty list and an empty string are false.
OptEverything(o) == o.scope = "everything"
OptDatetime(o) == o.scope = "datetime"
OptQuery(o) == o.scope = "query" /\ o.query # ""
OptItems(o) == o.scope = "items" /\ Len(o.ids) > 0

\* The chains of handle without the update-by-query branch (lines 162-164).
PrimaryQueryIgnored(o) ==
    IF o.update THEN
        IF OptEverything(o) THEN "add_or_update_all"
        ELSE IF OptDatetime(o) THEN "add_or_update_by_datetime"
        ELSE IF OptItems(o) THEN "add_or_update"
        ELSE "none"
    ELSE IF o.delete THEN
        IF OptEverything(o) THEN "delete_all"
        ELSE IF OptDatetime(o) THEN "delete_by_datetime"
        ELSE IF OptQuery(o) THEN "delete_by_query"
        ELSE IF OptItems(o) THEN "delete"
        ELSE "none"
    ELSE "none"

\* Lines 155-178: where the if/elif chains of handle lead.
Primary(o) ==
    IF o.update THEN
        IF OptEverything(o) THEN "add_or_update_all"
        ELSE IF OptDatetime(o) THEN "add_or_update_by_datetime"
        ELSE IF OptQuery(o) THEN "unsupported"
        ELSE IF OptItems(o) THEN "add_or_update"
        ELSE "none"
    ELSE IF o.delete THEN
        IF OptEverything(o) THEN "delete_all"
        ELSE IF OptDatetime(o) THEN "delete_by_datetime"
        ELSE IF OptQuery(o) THEN "delete_by_query"
        ELSE IF OptItems(o) THEN "delete"
        ELSE "none"
    ELSE "none"

\* The task add_or_update submits for a type (lines 301-308).
UpdateTask(t) ==
    CASE t = "Opinion" -> "add_or_update_opinions"
      [] t = "Audio" -> "add_or_update_audio_files"
      [] t = "Person" -> "add_or_update_people"
      [] t = "RECAPDocument" -> "add_or_update_recap_document"

\* A Python int and a Python list or tuple of ints, as task arguments.
PyInt(i) == [list |-> FALSE, elems |-> <<i>>]
PyList(l) == [list |-> TRUE, elems |-> l]
NoArgument == "no argument"

\* The operation whose body handle is in.
CurrentOp == calls[Len(calls)]

\* The exceptions the command can raise and does not catch.
TypeErrorDelete == "TypeError: delete() takes exactly 2 arguments"
NoneHasNoQuery == "AttributeError: 'NoneType' object has no attribute 'query'"
NoneHasNoObjects == "AttributeError: 'NoneType' object has no attribute 'objects'"
NoneHasNoCommit == "AttributeError: 'NoneType' object has no attribute 'commit'"
NoneHasNoOptimize == "AttributeError: 'NoneType' object has no attribute 'optimize'"
ZeroDivision == "ZeroDivisionError: float division by zero"
TaskFailure == "exception of a failed task, re-raised by join()"

\* self.stderr.write("   Couldn't load schema!")
SchemaWarning == "   Couldn't load schema!"

\* An exception nothing catches: a traceback on stderr and exit status 1.
Crash(exc) ==
    /\ hpc' = "crashed"
    /\ stderr' = Append(stderr, exc)
    /\ exit_code' = <<1>>

Init ==
    /\ options \in OptionSets
    /\ hpc = "handle"
    /\ solr_url = None
    /\ si = None
    /\ type = None
    /\ store = <<>>
    /\ del_count = 0
    /\ proceed = TRUE
    /\ prompts = <<>>
    /\ calls = <<>>
    /\ index_ops = <<>>
    /\ queue = <<>>
    /\ opt_urls = <<>>
    /\ skipped = <<>>
    /\ stderr = <<>>
    /\ exit_code = <<>>
    /\ EngineIdle

\* Lines 147-153: the interface is opened unless --optimize-everything.
HandleSetup ==
    /\ hpc = "handle"
    /\ IF ~options.optimize_everything
       THEN /\ solr_url' = options.solr_url
            /\ si' = "ExtraSolrInterface"
            /\ type' = options.type
       ELSE UNCHANGED <<solr_url, si, type>>
    /\ hpc' = "route"
    /\ UNCHANGED <<options, store, del_count, proceed, prompts, calls, index_ops,
                   queue, opt_urls, skipped, stderr, exit_code>>
    /\ UNCHANGED evars

\* Lines 155-178: the primary action is chosen; update by query exits.
Route ==
    /\ hpc = "route"
    /\ LET p == Primary(options)
       IN  IF p = "unsupported"
           THEN /\ stderr' = Append(stderr, "Updating by query not implemented.")
                /\ hpc' = "exited"
                /\ exit_code' = <<1>>
           ELSE /\ hpc' = IF p = "none" THEN "post_commit" ELSE p
                /\ UNCHANGED <<stderr, exit_code>>
    /\ UNCHANGED <<options, solr_url, si, type, store, del_count, proceed, prompts,
                   calls, index_ops, queue, opt_urls, skipped>>
    /\ UNCHANGED evars

\* add_or_update(*items): one task for the type, carrying the ids.
AddOrUpdate ==
    /\ hpc = "add_or_update"
    /\ calls' = Append(calls, "add_or_update")
    /\ queue' = IF type \in Types
                THEN Append(queue, [task |-> UpdateTask(type),
                                    items |-> PyList(options.ids),
                                    url |-> NoArgument])
                ELSE queue
    /\ hpc' = "post_commit"
    /\ UNCHANGED <<options, solr_url, si, type, store, del_count, proceed, prompts,
                   index_ops, opt_urls, skipped, stderr, exit_code>>
    /\ UNCHANGED evars

\* self.delete(*options['items']) on "def delete(self, items)": the call binds
\* only when one id is given, and then items is that id.
Delete ==
    /\ hpc = "delete"
    /\ IF Len(options.ids) = 1
       THEN /\ calls' = Append(calls, "delete")
            /\ queue' = Append(queue, [task |-> "delete_items",
                                       items |-> PyInt(options.ids[1]),
                                       url |-> solr_url])
            /\ hpc' = "post_commit"
            /\ UNCHANGED <<stderr, exit_code>>
       ELSE /\ Crash(TypeErrorDelete)
            /\ UNCHANGED <<calls, queue>>
    /\ UNCHANGED <<options, solr_url, si, type, store, del_count, proceed, prompts,
                   index_ops, opt_urls, skipped>>
    /\ UNCHANGED evars

\* delete_all, to the call of proceed_with_deletion: the index is counted.
DeleteAll ==
    /\ hpc = "delete_all"
    /\ calls' = Append(calls, "delete_all")
    /\ IF si = None
       THEN /\ Crash(NoneHasNoQuery)
            /\ UNCHANGED del_count
       ELSE /\ \E c \in Counts : del_count' = c
            /\ hpc' = "gate"
            /\ UNCHANGED <<stderr, exit_code>>
    /\ UNCHANGED <<options, solr_url, si, type, store, proceed, prompts, index_ops,
                   queue, opt_urls, skipped>>
    /\ UNCHANGED evars

\* delete_by_datetime, to the call of proceed_with_deletion: the store is
\* asked for the records created after dt.
DeleteByDatetime ==
    /\ hpc = "delete_by_datetime"
    /\ calls' = Append(calls, "delete_by_datetime")
    /\ IF type = None
       THEN /\ Crash(NoneHasNoObjects)
            /\ UNCHANGED <<store, del_count>>
       ELSE /\ \E st \in Stores :
                  /\ store' = st
                  /\ del_count' = Cardinality(CreatedAfter(st, options.dt))
            /\ hpc' = "gate"
            /\ UNCHANGED <<stderr, exit_code>>
    /\ UNCHANGED <<options, solr_url, si, type, proceed, prompts, index_ops, queue,
                   opt_urls, skipped>>
    /\ UNCHANGED evars

\* delete_by_query, to the call of proceed_with_deletion: the index is asked
\* for the matches of the query.
DeleteByQuery ==
    /\ hpc = "delete_by_query"
    /\ calls' = Append(calls, "delete_by_query")
    /\ IF si = None
       THEN /\ Crash(NoneHasNoQuery)
            /\ UNCHANGED del_count
       ELSE /\ \E c \in Counts : del_count' = c
            /\ hpc' = "gate"
            /\ UNCHANGED <<stderr, exit_code>>
    /\ UNCHANGED <<options, solr_url, si, type, store, proceed, prompts, index_ops,
                   queue, opt_urls, skipped>>
    /\ UNCHANGED evars

\* proceed_with_deletion, lines 24-27.
GateEnter ==
    /\ hpc = "gate"
    /\ proceed' = TRUE
    /\ hpc' = IF options.noinput THEN "gate_return" ELSE "prompt1"
    /\ UNCHANGED <<options, solr_url, si, type, store, del_count, prompts, calls,
                   index_ops, queue, opt_urls, skipped, stderr, exit_code>>
    /\ UNCHANGED evars

\* proceed_with_deletion, lines 28-36: the first prompt.
FirstPrompt ==
    /\ hpc = "prompt1"
    /\ \E ans \in Answers :
          /\ prompts' = Append(prompts, ans)
          /\ proceed' = Affirmative(ans)
          /\ hpc' = IF NeedsDoubleCheck(del_count, Affirmative(ans))
                    THEN "prompt2" ELSE "gate_return"
    /\ UNCHANGED <<options, solr_url, si, type, store, del_count, calls, index_ops,
                   queue, opt_urls, skipped, stderr, exit_code>>
    /\ UNCHANGED evars

\* proceed_with_deletion, lines 37-44: the second prompt.
SecondPrompt ==
    /\ hpc = "prompt2"
    /\ \E ans \in Answers :
          /\ prompts' = Append(prompts, ans)
          /\ proceed' = IF Affirmative(ans) THEN proceed ELSE FALSE
    /\ hpc' = "gate_return"
    /\ UNCHANGED <<options, solr_url, si, type, store, del_count, calls, index_ops,
                   queue, opt_urls, skipped, stderr, exit_code>>
    /\ UNCHANGED evars

\* An operation issued on self.si, the interface handle opened.
OnSelf(name) == [op |-> name, si |-> "self.si"]

\* A deletion that commits before it deletes.
DeletionOpsCommitFirst(op) ==
    <<OnSelf("commit"),
      IF op = "delete_all" THEN OnSelf("delete_all") ELSE OnSelf("delete")>>

\* The index operations a bulk deletion issues once confirmed.
DeletionOps(op) ==
    CASE op = "delete_all" ->
            <<OnSelf("delete_all"), OnSelf("commit")>>
      [] op = "delete_by_datetime" ->
            <<[op |-> "delete", si |-> "self.si",
               ids |-> SortedSeq(CreatedAfter(store, options.dt))],
              OnSelf("commit")>>
      [] op = "delete_by_query" ->
            <<[op |-> "delete", si |-> "self.si", queries |-> options.query],
              OnSelf("commit")>>

\* A deletion that does not look at what proceed_with_deletion returned.
ConfirmedOpsUnchecked(ok, op) == DeletionOps(op)

\* if proceed_with_deletion(self.stdout, count, self.noinput): ...
ConfirmedOps(ok, op) == IF ok THEN DeletionOps(op) ELSE <<>>

\* delete_all, delete_by_datetime and delete_by_query after
\* proceed_with_deletion has returned: delete and commit, or nothing.
DeleteConfirmed ==
    /\ hpc = "gate_return"
    /\ index_ops' = index_ops \o ConfirmedOps(proceed, CurrentOp)
    /\ hpc' = "post_commit"
    /\ UNCHANGED <<options, solr_url, si, type, store, del_count, proceed, prompts,
                   calls, queue, opt_urls, skipped, stderr, exit_code>>
    /\ UNCHANGED evars

\* add_or_update_all, to the call of the engine. For Person the judges are
\* materialised and counted at once; for the other types the store is counted
\* and iterated later.
AddOrUpdateAll ==
    /\ hpc = "add_or_update_all"
    /\ calls' = Append(calls, "add_or_update_all")
    /\ IF type = None
       THEN /\ Crash(NoneHasNoObjects)
            /\ UNCHANGED <<store, evars>>
       ELSE IF type = "Person"
       THEN /\ \E st \in Stores : \E judges \in SUBSET (DOMAIN st) :
                  /\ store' = st
                  /\ EngineEntry(SortedSeq(judges), Cardinality(judges),
                                 DefaultChunkSize, DefaultBundleSize)
            /\ hpc' = "engine"
            /\ UNCHANGED <<stderr, exit_code>>
       ELSE /\ \E st \in Stores :
                  /\ store' = st
                  /\ count' = Cardinality(DOMAIN st)
            /\ hpc' = "counted"
            /\ UNCHANGED <<stderr, exit_code, items, rest, chunksize, bundle_size,
                           processed_count, subtasks, item_bundle, last_item, epc,
                           bundles, waves, joins, out>>
    /\ UNCHANGED <<options, solr_url, si, type, del_count, proceed, prompts,
                   index_ops, queue, opt_urls, skipped>>

\* add_or_update_by_datetime, to the call of the engine: qs.count().
AddOrUpdateByDatetime ==
    /\ hpc = "add_or_update_by_datetime"
    /\ calls' = Append(calls, "add_or_update_by_datetime")
    /\ IF type = None
       THEN /\ Crash(NoneHasNoObjects)
            /\ UNCHANGED <<store, count>>
       ELSE /\ \E st \in Stores :
                  /\ store' = st
                  /\ count' = Cardinality(CreatedSince(st, options.dt))
            /\ hpc' = "counted"
            /\ UNCHANGED <<stderr, exit_code>>
    /\ UNCHANGED <<options, solr_url, si, type, del_count, proceed, prompts,
                   index_ops, queue, opt_urls, skipped>>
    /\ UNCHANGED <<items, rest, chunksize, bundle_size, processed_count, subtasks,
                   item_bundle, last_item, epc, bundles, waves, joins, out>>

\* Another process writes to the store between the count and the iteration.
StoreWrite ==
    /\ hpc = "counted"
    /\ store' \in OneWrite(store)
    /\ UNCHANGED <<options, hpc, solr_url, si, type, del_count, proceed, prompts,
                   calls, index_ops, queue, opt_urls, skipped, stderr, exit_code>>
    /\ UNCHANGED evars

\* The records queryset_generator yields for the operation running.
Selected(op) ==
    IF op = "add_or_update_by_datetime"
    THEN SortedSeq(CreatedSince(store, options.dt))
    ELSE SortedSeq(DOMAIN store)

\* self._chunk_queryset_into_tasks(items, count): the generator starts to
\* read the store when the engine asks for the first record.
EngineStart ==
    /\ hpc = "counted"
    /\ EngineEntry(Selected(CurrentOp), count, DefaultChunkSize, DefaultBundleSize)
    /\ hpc' = "engine"
    /\ UNCHANGED <<options, solr_url, si, type, store, del_count, proceed, prompts,
                   calls, index_ops, queue, opt_urls, skipped, stderr, exit_code>>

\* The engine has returned to add_or_update_all or add_or_update_by_datetime,
\* or has raised.
UpdateReturn ==
    /\ hpc = "engine"
    /\ epc \in {"done", "crashed", "raised"}
    /\ IF epc = "done"
       THEN /\ hpc' = "post_commit"
            /\ UNCHANGED <<stderr, exit_code>>
       ELSE Crash(IF epc = "raised" THEN TaskFailure ELSE ZeroDivision)
    /\ UNCHANGED <<options, solr_url, si, type, store, del_count, proceed, prompts,
                   calls, index_ops, queue, opt_urls, skipped>>
    /\ UNCHANGED evars

\* Lines 180-181: if options.get('do_commit'): self.si.commit()
PostCommit ==
    /\ hpc = "post_commit"
    /\ IF options.do_commit
       THEN IF si = None
            THEN /\ Crash(NoneHasNoCommit)
                 /\ UNCHANGED index_ops
            ELSE /\ index_ops' = Append(index_ops, OnSelf("commit"))
                 /\ hpc' = "post_optimize"
                 /\ UNCHANGED <<stderr, exit_code>>
       ELSE /\ hpc' = "post_optimize"
            /\ UNCHANGED <<index_ops, stderr, exit_code>>
    /\ UNCHANGED <<options, solr_url, si, type, store, del_count, proceed, prompts,
                   calls, queue, opt_urls, skipped>>
    /\ UNCHANGED evars

\* Lines 183-184 and optimize(): self.si.optimize()
PostOptimize ==
    /\ hpc = "post_optimize"
    /\ IF options.optimize
       THEN /\ calls' = Append(calls, "optimize")
            /\ IF si = None
               THEN /\ Crash(NoneHasNoOptimize)
                    /\ UNCHANGED index_ops
               ELSE /\ index_ops' = Append(index_ops, OnSelf("optimize"))
                    /\ hpc' = "post_optimize_everything"
                    /\ UNCHANGED <<stderr, exit_code>>
       ELSE /\ hpc' = "post_optimize_everything"
            /\ UNCHANGED <<calls, index_ops, stderr, exit_code>>
    /\ UNCHANGED <<options, solr_url, si, type, store, del_count, proceed, prompts,
                   queue, opt_urls, skipped>>
    /\ UNCHANGED evars

\* Lines 186-187 and optimize_everything() to its loop.
PostOptimizeEverything ==
    /\ hpc = "post_optimize_everything"
    /\ IF options.optimize_everything
       THEN /\ calls' = Append(calls, "optimize_everything")
            /\ opt_urls' = SOLR_URLS
            /\ hpc' = "optimizing"
       ELSE /\ hpc' = "final"
            /\ UNCHANGED <<calls, opt_urls>>
    /\ UNCHANGED <<options, solr_url, si, type, store, del_count, proceed, prompts,
                   index_ops, queue, skipped, stderr, exit_code>>
    /\ UNCHANGED evars

\* The loop of optimize_everything stopped at the first schema that does not
\* load ("break" for "continue").
AfterSchemaFailureBreak(urls) == <<>>

\* except EnvironmentError: ... continue
AfterSchemaFailure(urls) == Tail(urls)

\* optimize_everything, one pass of "for url in urls": the schema loads and
\* the index is optimized, or EnvironmentError is caught and the index skipped.
OptimizeOne ==
    /\ hpc = "optimizing"
    /\ opt_urls # <<>>
    /\ \E loaded \in BOOLEAN :
          IF loaded
          THEN /\ index_ops' = Append(index_ops,
                                      [op |-> "optimize", si |-> Head(opt_urls)])
               /\ opt_urls' = Tail(opt_urls)
               /\ UNCHANGED <<stderr, skipped>>
          ELSE /\ stderr' = Append(stderr, SchemaWarning)
               /\ skipped' = Append(skipped, Head(opt_urls))
               /\ opt_urls' = AfterSchemaFailure(opt_urls)
               /\ UNCHANGED index_ops
    /\ UNCHANGED <<options, hpc, solr_url, si, type, store, del_count, proceed,
                   prompts, calls, queue, exit_code>>
    /\ UNCHANGED evars

\* optimize_everything returns.
OptimizeDone ==
    /\ hpc = "optimizing"
    /\ opt_urls = <<>>
    /\ hpc' = "final"
    /\ UNCHANGED <<options, solr_url, si, type, store, del_count, proceed, prompts,
                   calls, index_ops, queue, opt_urls, skipped, stderr, exit_code>>
    /\ UNCHANGED evars

\* The message of lines 192-194.
NoActionError ==
    "Error: You must specify whether you wish to update, delete, commit, or optimize your index."

\* The test of lines 189-191 with optimize_everything forgotten.
AnyActionButOptimizeAll(o) ==
    o.update \/ o.delete \/ o.do_commit \/ o.optimize

\* any([update, delete, do_commit, optimize, optimize_everything])
AnyAction(o) ==
    o.update \/ o.delete \/ o.do_commit \/ o.optimize \/ o.optimize_everything

\* Lines 189-195, and the return of handle.
Final ==
    /\ hpc = "final"
    /\ IF ~AnyAction(options)
       THEN /\ stderr' = Append(stderr, NoActionError)
            /\ hpc' = "exited"
            /\ exit_code' = <<1>>
       ELSE /\ hpc' = "done"
            /\ exit_code' = <<0>>
            /\ UNCHANGED stderr
    /\ UNCHANGED <<options, solr_url, si, type, store, del_count, proceed, prompts,
                   calls, index_ops, queue, opt_urls, skipped>>
    /\ UNCHANGED evars

Next ==
    \/ HandleSetup
    \/ Route
    \/ AddOrUpdate
    \/ Delete
    \/ DeleteAll
    \/ DeleteByDatetime
    \/ DeleteByQuery
    \/ GateEnter
    \/ FirstPrompt
    \/ SecondPrompt
    \/ DeleteConfirmed
    \/ AddOrUpdateAll
    \/ AddOrUpdateByDatetime
    \/ StoreWrite
    \/ EngineStart
    \/ UpdateReturn
    \/ PostCommit
    \/ PostOptimize
    \/ PostOptimizeEverything
    \/ OptimizeOne
    \/ OptimizeDone
    \/ Final
    \/ NextEngine

Spec == Init /\ [][Next]_vars

\* ------------------------------------------------------------------------
\* Properties of the engine
\* ------------------------------------------------------------------------
\* The bundles of every wave built so far, in order.
RECURSIVE WaveBundles(_)
WaveBundles(ws) ==
    IF ws = <<>> THEN <<>>
    ELSE [i \in 1..Len(Head(ws)) |-> Head(ws)[i].bundle] \o WaveBundles(Tail(ws))

\* A wave every task of which has succeeded or failed.
Finished(w) == \A i \in 1..Len(w) : w[i].state \in {"SUCCESS", "FAILURE"}

\* A wave some task of which has been published and has not finished.
InFlight(w) == \E i \in 1..Len(w) : w[i].state = "PENDING"

\* C1: called with count = N = len(items) and bundle_size B >= 1, the engine
\* returns having sealed ceil(N/B) bundles, each of B records except possibly
\* the last (N mod B records, or B when B divides N), and the bundles
\* concatenated in sealing order are the input sequence.
C1_BundlesPartitionInput ==
    (epc = "done" /\ count = Len(items)) =>
        LET N == Len(items)
            B == bundle_size
            M == Len(bundles)
        IN  /\ M = CeilDiv(N, B)
            /\ \A i \in 1..M :
                  Len(bundles[i]) = IF i < M \/ N % B = 0 THEN B ELSE N % B
            /\ Flatten(bundles) = items

\* C1's case: three records in bundles of two, the last bundle partial.
C1_Witness ==
    /\ epc = "done"
    /\ count = Len(items)
    /\ Len(items) = 3
    /\ bundle_size = 2
    /\ Len(bundles) = 2
    /\ Len(bundles[2]) = 1

\* C2: a run that sealed M bundles with chunk size C has issued ceil(M/C)
\* joins when it returns, and a join is issued only when every task of its
\* wave has been published.
C2_JoinsPerWave ==
    /\ epc = "done" => joins = CeilDiv(Len(bundles), chunksize)
    /\ epc = "join" => \A i \in 1..Len(CurrentWave) : CurrentWave[i].state # "NEW"

\* C3: at most one wave is in flight: every wave but the one built last has
\* finished, so no task of a wave is published before the join of the wave
\* before it has returned.
C3_OneWaveInFlight ==
    /\ \A w \in 1..Len(waves) : w < Len(waves) => Finished(waves[w])
    /\ Cardinality({w \in 1..Len(waves) : InFlight(waves[w])}) <= 1
    /\ epc \in {"loop", "done", "crashed"} =>
          \A w \in 1..Len(waves) : Finished(waves[w])

\* C3's case: a second wave has a published, unfinished task.
C3_Witness ==
    /\ Len(waves) >= 2
    /\ InFlight(waves[Len(waves)])
    /\ \E i \in 1..Len(waves[1]) : waves[1][i].state = "FAILURE"

\* C4: whatever the iterable yields and whatever count is given, when the
\* engine returns the current bundle and the current wave are empty: every
\* record consumed is in a sealed bundle whose task was submitted in a wave
\* that has been joined.
C4_NoBundleDropped ==
    epc = "done" =>
        /\ item_bundle = <<>>
        /\ subtasks = <<>>
        /\ Flatten(bundles) = items
        /\ WaveBundles(waves) = bundles
        /\ joins = Len(waves)
        /\ \A w \in 1..Len(waves) : Finished(waves[w])

\* ------------------------------------------------------------------------
\* Properties of handle and of the operations it calls
\* ------------------------------------------------------------------------
\* handle has ended: returned, called sys.exit, or raised.
Terminal == hpc \in {"done", "exited", "crashed"}

\* The operator declined the prompt asked last.
Declined == prompts # <<>> /\ ~Affirmative(prompts[Len(prompts)])

\* The operations the post-action flags --do-commit and --optimize ask of
\* self.si, in handle's order.
PostSelf(o) ==
    (IF o.do_commit THEN <<OnSelf("commit")>> ELSE <<>>)
    \o (IF o.optimize THEN <<OnSelf("optimize")>> ELSE <<>>)

IsPrefix(a, b) == Len(a) <= Len(b) /\ a = SubSeq(b, 1, Len(a))

IsSuffix(a, b) == Len(a) <= Len(b) /\ a = SubSeq(b, Len(b) - Len(a) + 1, Len(b))

\* The operations issued on self.si, in order.
SelfOps == LET onSelf(r) == r.si = "self.si" IN SelectSeq(index_ops, onSelf)

\* How often an operation's body was entered.
Entered(name) == Cardinality({i \in 1..Len(calls) : calls[i] = name})

\* C5: proceed_with_deletion asks nothing and returns True with noinput;
\* otherwise it asks once when count <= 10,000, a second time only when
\* count > 10,000 and the first answer was affirmative, and returns True
\* exactly when every answer given was affirmative.
C5_ConfirmationGate ==
    /\ hpc = "prompt2" =>
          /\ del_count > DoubleCheck
          /\ Len(prompts) = 1
          /\ Affirmative(prompts[1])
    /\ hpc = "gate_return" =>
          IF options.noinput
          THEN prompts = <<>> /\ proceed
          ELSE /\ Len(prompts) >= 1
               /\ Len(prompts) =
                     IF del_count > DoubleCheck /\ Affirmative(prompts[1])
                     THEN 2 ELSE 1
               /\ proceed <=> \A i \in 1..Len(prompts) : Affirmative(prompts[i])

\* C5's case: exactly 10,000 items, one prompt, answered yes.
C5_Witness ==
    /\ hpc = "gate_return"
    /\ ~options.noinput
    /\ del_count = DoubleCheck
    /\ prompts = <<<<"Y", "e", "s">>>>
    /\ proceed

\* C6 as stated: once the operator has declined a prompt, the invocation
\* issues no operation against the index, whatever other flags were given,
\* and does not exit with an error code.
C6_DeclineNoIndexOperation ==
    Declined => index_ops = <<>> /\ exit_code # <<1>>

\* C6, amended: once the operator has declined a prompt, the deletion issues
\* no delete and no commit and submits no task; the only operations issued
\* against the index are those the post-action flags ask for (one commit with
\* --do-commit, then one optimize with --optimize), and the process ends with
\* exit code 0.
C6_DeclineOnlyPostActions ==
    Declined =>
        /\ IsPrefix(index_ops, PostSelf(options))
        /\ queue = <<>>
        /\ waves = <<>>
        /\ hpc \notin {"crashed", "exited"}
        /\ hpc = "done" => index_ops = PostSelf(options) /\ exit_code = <<0>>
        /\ hpc # "done" => exit_code = <<>>

\* C6's case: the second prompt declined, with --do-commit given.
C6_Witness ==
    /\ Declined
    /\ Len(prompts) = 2
    /\ options.do_commit
    /\ hpc = "done"
    /\ index_ops = <<OnSelf("commit")>>

\* The decision table of the command router: mode x scope -> primary action.
Table(o) ==
    IF o.update
    THEN CASE o.scope = "everything" -> "add_or_update_all"
           [] o.scope = "datetime" -> "add_or_update_by_datetime"
           [] o.scope = "items" -> "add_or_update"
           [] o.scope = "query" -> "unsupported"
    ELSE CASE o.scope = "everything" -> "delete_all"
           [] o.scope = "datetime" -> "delete_by_datetime"
           [] o.scope = "items" -> "delete"
           [] o.scope = "query" -> "delete_by_query"

PrimaryActions ==
    {"add_or_update_all", "add_or_update_by_datetime", "add_or_update",
     "delete_all", "delete_by_datetime", "delete", "delete_by_query"}

\* The primary actions handle has entered, in order.
PrimaryCalls == LET isPrimary(c) == c \in PrimaryActions IN SelectSeq(calls, isPrimary)

\* C7: for every mode and every scope given (any id list with --items),
\* handle invokes the primary action of the decision table's cell and no
\* other; update by query is the usage error.
C7_DecisionTable ==
    (Terminal /\ (options.update \/ options.delete) /\ options.scope # "none") =>
        IF Table(options) = "unsupported"
        THEN PrimaryCalls = <<>> /\ hpc = "exited" /\ exit_code = <<1>>
        ELSE PrimaryCalls = <<Table(options)>>

\* handle has raised in one of its post-actions.
PostActionRaised ==
    /\ hpc = "crashed"
    /\ stderr[Len(stderr)] \in {NoneHasNoCommit, NoneHasNoOptimize}

\* C8: whenever the primary action (if any) has finished, every post-action
\* asked for is executed exactly once, in the order commit, optimize,
\* optimize_all, after the primary action.
C8_PostActionsRun ==
    (hpc = "done" \/ PostActionRaised) =>
        /\ IsSuffix(PostSelf(options), SelfOps)
        /\ \A i \in 1..(Len(SelfOps) - Len(PostSelf(options))) :
              SelfOps[i].op # "optimize"
        /\ Entered("optimize") = IF options.optimize THEN 1 ELSE 0
        /\ Entered("optimize_everything") = IF options.optimize_everything THEN 1 ELSE 0
        /\ \A i, j \in 1..Len(index_ops) :
              (i < j /\ index_ops[i].si # "self.si") => index_ops[j].si # "self.si"

\* C9: delete mode with a non-empty id list submits exactly one delete task,
\* carrying the whole id list and the index URL, and asks no confirmation.
C9_DeleteByIds ==
    (Terminal /\ options.delete /\ options.scope = "items" /\ Len(options.ids) > 0) =>
        /\ queue = <<[task |-> "delete_items", items |-> PyList(options.ids),
                      url |-> solr_url]>>
        /\ prompts = <<>>

Requested ==
    \/ options.update
    \/ options.delete
    \/ options.do_commit
    \/ options.optimize
    \/ options.optimize_everything

\* A message is on stderr.
OnStderr(msg) == \E i \in 1..Len(stderr) : stderr[i] = msg

\* C11: with none of update, delete, commit, optimize, optimize_all asked for,
\* handle can only end with the usage error and exit code 1, having submitted
\* no task and issued no index operation; with one of them asked for, the
\* no-action error is never written.
C11_NoActionUsageError ==
    /\ ~Requested =>
          /\ queue = <<>>
          /\ waves = <<>>
          /\ index_ops = <<>>
          /\ calls = <<>>
          /\ hpc \notin {"done", "crashed"}
          /\ hpc = "exited" => exit_code = <<1>> /\ stderr = <<NoActionError>>
    /\ Requested => ~OnStderr(NoActionError)

\* C11's case: a scope and a type but no action, after the exit.
C11_Witness ==
    /\ ~Requested
    /\ options.scope = "everything"
    /\ options.type = "Opinion"
    /\ hpc = "exited"
    /\ exit_code = <<1>>

\* The URLs optimize_everything has optimized, in order.
OptimizedUrls ==
    LET notSelf(r) == r.si # "self.si"
        ops == SelectSeq(index_ops, notSelf)
    IN  [i \in 1..Len(ops) |-> ops[i].si]

\* The configured URLs whose schema loaded, in the order of settings.SOLR_URLS.
LoadedUrls ==
    LET loaded(u) == \A i \in 1..Len(skipped) : skipped[i] # u
    IN  SelectSeq(SOLR_URLS, loaded)

\* How many schema warnings are on stderr.
Warnings == Cardinality({i \in 1..Len(stderr) : stderr[i] = SchemaWarning})

\* C12: once optimize_everything has gone through its loop, every configured
\* index whose schema loaded has been optimized exactly once, in order,
\* whatever failed before it; every index whose schema failed is skipped with
\* one warning and not optimized; and the command ends with exit code 0.
C12_OptimizeAllSkipsFailures ==
    Entered("optimize_everything") = 1 =>
        /\ hpc \in {"optimizing", "final", "done"}
        /\ Warnings = Len(skipped)
        /\ \A i \in 1..Len(skipped) : \A j \in 1..Len(OptimizedUrls) :
              skipped[i] # OptimizedUrls[j]
        /\ hpc \in {"final", "done"} => OptimizedUrls = LoadedUrls
        /\ hpc = "done" => exit_code = <<0>>

\* C12's case: three indexes, the second fails: the first and the third are
\* optimized and the command ends with exit code 0.
C12_Witness ==
    /\ hpc = "done"
    /\ exit_code = <<0>>
    /\ skipped = <<SOLR_URLS[2]>>
    /\ OptimizedUrls = <<SOLR_URLS[1], SOLR_URLS[3]>>

\* How many tasks the engine has submitted, over all waves.
Submitted == Len(WaveBundles(waves))

\* C13: a failed task aborts neither its wave nor the engine. With count equal
\* to the number of records, the engine never stops on a task's failure; when
\* the loop is between waves every task submitted so far has finished; and
\* when the engine has stopped it has submitted one task per bundle of the
\* input and joined every wave, whether or not tasks failed.
C13_TaskFailureDoesNotAbort ==
    count = Len(items) =>
        /\ epc # "raised"
        /\ epc \in {"loop", "done"} => \A w \in 1..Len(waves) : Finished(waves[w])
        /\ epc \in {"done", "crashed", "raised"} =>
              /\ Submitted = CeilDiv(Len(items), bundle_size)
              /\ joins = CeilDiv(Submitted, chunksize)
              /\ rest = <<>>

\* p is a whole percentage within half a percent of k/n.
WholePercentOf(p, k, n) ==
    /\ p \in Nat
    /\ 2 * (100 * k - p * n) <= n
    /\ 2 * (p * n - 100 * k) <= n

\* C14: with count equal to the number of records, progress is written once
\* per record: the k-th line is k/N with k/N as a whole percentage, one line
\* for each record whose pass through the loop has ended, N lines ending at
\* N/N (100%) when the engine returns; and 3 records with bundle_size 2 and
\* chunksize 1 make the bundles <<1, 2>> and <<3>>, two waves each joined, and
\* the lines 1/3 (33%), 2/3 (67%), 3/3 (100%).
C14_ProgressPerRecord ==
    (count = Len(items) /\ epc # "idle") =>
        /\ \A k \in 1..Len(out) :
              /\ out[k][1] = k
              /\ out[k][2] = Len(items)
              /\ WholePercentOf(out[k][3], k, Len(items))
        /\ epc = "loop" => Len(out) = processed_count
        /\ epc \in {"apply_async", "join", "raised"} => Len(out) = processed_count - 1
        /\ (epc = "done" /\ items # <<>>) =>
              /\ Len(out) = Len(items)
              /\ out[Len(out)] = <<Len(items), Len(items), 100>>
        /\ (epc = "done" /\ items = <<1, 2, 3>> /\ bundle_size = 2 /\ chunksize = 1) =>
              /\ bundles = <<(<<1, 2>>), (<<3>>)>>
              /\ Len(waves) = 2
              /\ joins = 2
              /\ out = <<(<<1, 3, 33>>), (<<2, 3, 67>>), (<<3, 3, 100>>)>>

\* C14's case: the run over 3 records with bundle_size 2 and chunksize 1 has
\* returned.
C14_Witness ==
    /\ epc = "done"
    /\ items = <<1, 2, 3>>
    /\ count = 3
    /\ bundle_size = 2
    /\ chunksize = 1
    /\ Len(out) = 3

\* The bulk deletions.
BulkDeletes == {"delete_all", "delete_by_datetime", "delete_by_query"}

\* The positions of index_ops that hold a delete.
DeletePositions == {i \in 1..Len(index_ops) : index_ops[i].op \in {"delete_all", "delete"}}

\* handle is past the primary action.
PastPrimary ==
    hpc \in {"post_commit", "post_optimize", "post_optimize_everything",
             "optimizing", "final", "done"}

\* C15: in delete_all, delete_by_datetime and delete_by_query the steps come
\* in the order count, confirmation, delete, commit. Nothing is asked of the
\* index while the confirmation is pending; a delete is in the index's log
\* only when the gate has returned True (after noinput or an answer) for the
\* count taken by the operation; it is the first operation, there is exactly
\* one, the operation's commit follows it at once, and whatever comes after
\* is what the post-action flags ask for.
C15_DeleteOrder ==
    (\E name \in BulkDeletes : Entered(name) = 1) =>
        /\ hpc \in {"gate", "prompt1", "prompt2", "gate_return"} =>
              /\ index_ops = <<>>
              /\ del_count \in Nat
        /\ DeletePositions # {} =>
              /\ PastPrimary
              /\ proceed
              /\ options.noinput \/ prompts # <<>>
              /\ DeletePositions = {1}
              /\ Len(index_ops) >= 2
              /\ index_ops[2] = OnSelf("commit")
              /\ IsPrefix(SubSeq(index_ops, 3, Len(index_ops)), PostSelf(options))
        /\ (DeletePositions = {} /\ PastPrimary) =>
              /\ ~proceed
              /\ IsPrefix(index_ops, PostSelf(options))

\* C15's case: delete_by_query, confirmed at the prompt, with --do-commit: the
\* delete, the operation's commit, then the post-action's commit.
C15_Witness ==
    /\ Entered("delete_by_query") = 1
    /\ hpc = "done"
    /\ prompts # <<>>
    /\ Len(index_ops) = 3
    /\ index_ops[1].op = "delete"
    /\ index_ops[2] = OnSelf("commit")
    /\ index_ops[3] = OnSelf("commit")

\* The bundles of the subtasks waiting for their wave.
PendingBundles == [i \in 1..Len(subtasks) |-> subtasks[i].bundle]

\* C16: every sealed bundle becomes one task submitted in one wave. The tasks
\* of the waves, in order, carry the sealed bundles in order, none twice and
\* none changed; while the engine runs the sealed bundles not yet in a wave
\* are those of the subtasks waiting; and when the engine returns every
\* sealed bundle has been submitted.
C16_BundleSubmittedOnce ==
    /\ IsPrefix(WaveBundles(waves), bundles)
    /\ epc = "loop" => WaveBundles(waves) \o PendingBundles = bundles
    /\ epc = "done" => WaveBundles(waves) = bundles

\* C16 for the calls whose count is the number of records: it holds there.
C16_WhenCountIsExact == count = Len(items) => C16_BundleSubmittedOnce

\* The number of records in the bundles of a wave.
RECURSIVE WaveRecords(_)
WaveRecords(w) == IF w = <<>> THEN 0 ELSE Len(Head(w).bundle) + WaveRecords(Tail(w))

\* The records submitted and not yet joined: those of the wave being
\* published or joined.
RecordsInFlight ==
    IF epc \in {"apply_async", "join", "raised"} THEN WaveRecords(CurrentWave) ELSE 0

\* C17: in every state the pending bundle holds at most bundle_size records
\* and the pending wave at most chunksize subtasks; every wave submitted has
\* between 1 and chunksize tasks, each with a bundle of 1 to bundle_size
\* records; so the records in flight never exceed chunksize * bundle_size,
\* which is 12,500 with the defaults.
C17_BoundedInFlight ==
    /\ Len(item_bundle) <= bundle_size
    /\ Len(subtasks) <= chunksize
    /\ \A w \in 1..Len(waves) :
          /\ Len(waves[w]) \in 1..chunksize
          /\ \A i \in 1..Len(waves[w]) : Len(waves[w][i].bundle) \in 1..bundle_size
    /\ RecordsInFlight <= chunksize * bundle_size
    /\ DefaultChunkSize * DefaultBundleSize = 12500

\* C17's case: a full wave of full bundles is in flight.
C17_Witness ==
    /\ epc = "join"
    /\ chunksize = 2
    /\ Len(CurrentWave) = chunksize
    /\ \A i \in 1..Len(CurrentWave) : CurrentWave[i].state = "PENDING"
    /\ RecordsInFlight = chunksize * bundle_size

\* C18: for a timestamp dt the scope "newer than dt" is the same set of
\* records in both modes: what add_or_update_by_datetime hands to the engine
\* is what delete_by_datetime would delete, and what delete_by_datetime
\* deletes is what add_or_update_by_datetime would re-index, a record created
\* exactly at dt included.
C18_SameSelection ==
    /\ (Entered("add_or_update_by_datetime") = 1 /\ hpc = "engine") =>
          items = SortedSeq(CreatedAfter(store, options.dt))
    /\ (Entered("delete_by_datetime") = 1 /\ DeletePositions # {}) =>
          index_ops[1].ids = SortedSeq(CreatedSince(store, options.dt))

\* The two selections differ only by the records created exactly at dt.
C18_DifferAtEquality ==
    \A st \in Stores : \A dt \in Times :
        CreatedSince(st, dt) \ CreatedAfter(st, dt) = {pk \in DOMAIN st : st[pk] = dt}

\* Every task of the engine's waves carries the URL given with --solr-url.
BundleTasksCarryUrl ==
    options.solr_url # None =>
        \A w \in 1..Len(waves) : \A i \in 1..Len(waves[w]) :
            waves[w][i].url = options.solr_url

\* Every task submitted with delay() carries the URL given with --solr-url.
QueuedTasksCarryUrl ==
    options.solr_url # None =>
        \A i \in 1..Len(queue) : queue[i].url = options.solr_url

\* C19: every task the command submits, the engine's bundle tasks and the
\* tasks of an update or a delete by id list, carries the index URL selected
\* for the invocation: the one given with --solr-url when it is given.
C19_TasksCarrySelectedUrl == BundleTasksCarryUrl /\ QueuedTasksCarryUrl

\* The tasks of a delete by id list carry the URL unless --optimize-everything
\* kept handle from storing it.
C19_DeleteTasksCarryUrl ==
    (options.solr_url # None /\ ~options.optimize_everything) =>
        \A i \in 1..Len(queue) :
            queue[i].task = "delete_items" => queue[i].url = options.solr_url

\* A step the engine can take by itself, without waiting for a worker.
EngineStep == Iterate \/ Publish \/ JoinCall \/ EngineReturn

\* C20: with workers that finish every task, a run of the engine over a
\* finite sequence of records eventually returns having consumed all of them,
\* and before it returns the engine is never stopped anywhere but in the join
\* of the current wave.
C20_EngineReturns ==
    /\ <>(epc = "done" /\ rest = <<>> /\ processed_count = Len(items))
    /\ [](epc \in {"loop", "apply_async"} => ENABLED EngineStep)

\* What does hold: the engine always comes to an end, by returning or by
\* raising, and never waits anywhere but in the join.
C20_EngineEnds ==
    /\ <>(epc \in {"done", "crashed", "raised"})
    /\ [](epc \in {"loop", "apply_async"} => ENABLED EngineStep)

====
